---- MODULE Spec2Model ----
(***************************************************************************)
(* A model of newa_nlp: the inverted index (invertedindex.py), the search  *)
(* engine (search.py) and the tokenizer (tokenizer.py) they rest on.       *)
(*                                                                         *)
(* Text is a sequence of Unicode code points; a token is such a sequence   *)
(* too.  Document identifiers and operation names are opaque strings.      *)
(***************************************************************************)
EXTENDS Integers, Sequences, FiniteSets, TLC

VARIABLES
    index,            \* InvertedIndex.index: token -> set of document ids (a dict)
    document_count,   \* InvertedIndex.document_count
    total_terms,      \* InvertedIndex.total_terms
    contributed,      \* history: (token, doc id) -> times add_document posted it
    engine,           \* SearchEngine: [index, corpus_csv, document_cache]
    supplied,         \* history: an index was given at construction or loaded
    served,           \* history: doc id -> the content get_document_content returned
    disk,             \* the file system: saved indexes by path, directories made
    call,             \* the last call made: its name and arguments
    result            \* what the last call returned or raised

vars == <<index, document_count, total_terms, contributed, engine, supplied, served,
          disk, call, result>>

(***************************************************************************)
(* Bounds of the model.                                                    *)
(***************************************************************************)
MaxAdds == 2
MaxTerms == 2
MaxLimit == 2
MaxTextLen == 3
MaxPairLen == 1

(***************************************************************************)
(* Code points.                                                            *)
(***************************************************************************)
NA == 2344
PA == 2346
LA == 2354
LATIN_A == 97
LATIN_N == 110
DANDA == 2404
DDANDA == 2405
SPACE == 32
BANG == 33
QMARK == 63
DOT == 46
STAR == 42
CYR_ER == 1088
CYR_IE == 1077
CYR_DE == 1076

None == "None"
\* an Optional[int] or Optional[InvertedIndex]: Nothing is None, Some(x) is x
Nothing == <<>>
Some(x) == <<x>>
Get(o) == o[1]
NoError == "NoError"
Docs == {"d1", "d2"}

\* str.isspace for the code points of the model
IsSpace(c) == c \in {9, 10, 11, 12, 13, SPACE}

\* str.lower, one code point: A-Z go to a-z, Devanagari has no case
LowerChar(c) == IF c \in 65..90 THEN c + 32 ELSE c

lower(s) == [i \in 1..Len(s) |-> LowerChar(s[i])]

RECURSIVE lstrip(_)
lstrip(s) == IF s # <<>> /\ IsSpace(Head(s)) THEN lstrip(Tail(s)) ELSE s

RECURSIVE rstrip(_)
rstrip(s) ==
    IF s # <<>> /\ IsSpace(s[Len(s)]) THEN rstrip(SubSeq(s, 1, Len(s) - 1)) ELSE s

\* str.strip()
strip(s) == rstrip(lstrip(s))

\* str.upper() on the operation names the model passes
upper(operation) ==
    CASE operation = "and" -> "AND"
      [] operation = "or" -> "OR"
      [] operation = "xor" -> "XOR"
      [] OTHER -> operation

Operations == {"AND", "OR", "and", "XOR"}

(***************************************************************************)
(* InvertedIndex                                                           *)
(***************************************************************************)
\* the three fields of an InvertedIndex object as one value
IndexObject(idx, dc, tt) == [index |-> idx, document_count |-> dc, total_terms |-> tt]

\* InvertedIndex.__init__
EmptyIndex == IndexObject(<<>>, 0, 0)

\* self.index[term] = {doc_id}: the posting set replaced, not extended
PostReplacing(idx, term, doc_id) ==
    [t \in DOMAIN idx \cup {term} |-> IF t = term THEN {doc_id} ELSE idx[t]]

\* self.index[term].add(doc_id) on the defaultdict
Post(idx, term, doc_id) ==
    [t \in DOMAIN idx \cup {term} |->
        IF t = term
        THEN (IF term \in DOMAIN idx THEN idx[term] ELSE {}) \cup {doc_id}
        ELSE idx[t]]

\* add_terms, counting a term only when it posts a new (term, document) pair
RECURSIVE add_terms_counting_new_pairs(_, _, _)
add_terms_counting_new_pairs(obj, doc_id, terms) ==
    IF terms = <<>> THEN obj
    ELSE LET term == Head(terms) IN
         IF strip(term) # <<>>
         THEN add_terms_counting_new_pairs(
                  [obj EXCEPT !.index = Post(obj.index, term, doc_id),
                              !.total_terms =
                                  IF term \in DOMAIN obj.index /\ doc_id \in obj.index[term]
                                  THEN obj.total_terms
                                  ELSE obj.total_terms + 1],
                  doc_id, Tail(terms))
         ELSE add_terms_counting_new_pairs(obj, doc_id, Tail(terms))

\* add_terms, posting only the terms of more than one code point
RECURSIVE add_terms_skipping_short(_, _, _)
add_terms_skipping_short(obj, doc_id, terms) ==
    IF terms = <<>> THEN obj
    ELSE LET term == Head(terms) IN
         IF Len(strip(term)) > 1
         THEN add_terms_skipping_short(
                  [obj EXCEPT !.index = Post(obj.index, term, doc_id),
                              !.total_terms = obj.total_terms + 1],
                  doc_id, Tail(terms))
         ELSE add_terms_skipping_short(obj, doc_id, Tail(terms))

\* the loop of add_document, one term at a time
RECURSIVE add_terms(_, _, _)
add_terms(obj, doc_id, terms) ==
    IF terms = <<>> THEN obj
    ELSE LET term == Head(terms) IN
         IF strip(term) # <<>>
         THEN add_terms([obj EXCEPT !.index = Post(obj.index, term, doc_id),
                                    !.total_terms = obj.total_terms + 1],
                        doc_id, Tail(terms))
         ELSE add_terms(obj, doc_id, Tail(terms))

\* add_document, counting a document only the first time its id is posted
add_document_counting_new_ids(obj, doc_id, terms) ==
    add_terms([obj EXCEPT !.document_count =
                   IF \E t \in DOMAIN obj.index : doc_id \in obj.index[t]
                   THEN obj.document_count
                   ELSE obj.document_count + 1],
              doc_id, terms)

add_document(obj, doc_id, terms) ==
    add_terms([obj EXCEPT !.document_count = obj.document_count + 1], doc_id, terms)

\* self.index[term] on the defaultdict: a missing term gets an empty entry
index_subscript(idx, term) ==
    IF term \in DOMAIN idx THEN [index |-> idx, value |-> idx[term]]
    ELSE [index |-> [t \in DOMAIN idx \cup {term} |->
                        IF t \in DOMAIN idx THEN idx[t] ELSE {}],
          value |-> {}]

\* self.index.get(term, set()): the dict afterwards and the value
index_get(idx, term) ==
    IF term \in DOMAIN idx THEN [index |-> idx, value |-> idx[term]]
    ELSE [index |-> idx, value |-> {}]

get_documents(idx, term) == index_get(idx, term).value

Returned(v) == [raised |-> NoError, value |-> v]
Raised(e) == [raised |-> e, value |-> None]

\* search_loop with AND combining by union as OR does
RECURSIVE search_loop_and_as_union(_, _, _, _)
search_loop_and_as_union(idx, rest, operation, results) ==
    IF rest = <<>> THEN Returned(results)
    ELSE LET term_docs == get_documents(idx, Head(rest)) IN
         IF upper(operation) \in {"AND", "OR"}
         THEN search_loop_and_as_union(idx, Tail(rest), operation, results \cup term_docs)
         ELSE Raised("ValueError: Operation must be 'AND' or 'OR'")

RECURSIVE search_loop(_, _, _, _)
search_loop(idx, rest, operation, results) ==
    IF rest = <<>> THEN Returned(results)
    ELSE LET term_docs == get_documents(idx, Head(rest)) IN
         IF upper(operation) = "AND"
         THEN search_loop(idx, Tail(rest), operation, results \cap term_docs)
         ELSE IF upper(operation) = "OR"
         THEN search_loop(idx, Tail(rest), operation, results \cup term_docs)
         ELSE Raised("ValueError: Operation must be 'AND' or 'OR'")

\* search, checking the operation before anything else
search_checking_operation_first(idx, query_terms, operation) ==
    IF upper(operation) \notin {"AND", "OR"}
    THEN Raised("ValueError: Operation must be 'AND' or 'OR'")
    ELSE IF query_terms = <<>> THEN Returned({})
    ELSE search_loop(idx, Tail(query_terms), operation,
                     get_documents(idx, query_terms[1]))

search(idx, query_terms, operation) ==
    IF query_terms = <<>> THEN Returned({})
    ELSE search_loop(idx, Tail(query_terms), operation,
                     get_documents(idx, query_terms[1]))

\* the dict after the lookups of terms, one after the other
RECURSIVE index_after(_, _)
index_after(idx, terms) ==
    IF terms = <<>> THEN idx
    ELSE index_after(index_get(idx, Head(terms)).index, Tail(terms))

\* the terms search looks up: all of them, or the first two when the loop
\* raises in its first round
looked_up(query_terms, operation) ==
    IF Len(query_terms) >= 2 /\ upper(operation) \notin {"AND", "OR"}
    THEN SubSeq(query_terms, 1, 2)
    ELSE query_terms

Range(seq) == {seq[i] : i \in 1..Len(seq)}

\* list(docs): the elements of a set in some order
RECURSIVE SetToSeq(_)
SetToSeq(S) == IF S = {} THEN <<>>
               ELSE LET x == CHOOSE x \in S : TRUE IN <<x>> \o SetToSeq(S \ {x})

to_dict(obj) == [t \in DOMAIN obj.index |-> SetToSeq(obj.index[t])]

RECURSIVE SumLen(_, _)
SumLen(data, keys) ==
    IF keys = {} THEN 0
    ELSE LET k == CHOOSE k \in keys : TRUE IN Len(data[k]) + SumLen(data, keys \ {k})

\* from_dict counting one per term, not one per posting
from_dict_counting_terms(data, doc_count) ==
    IndexObject([t \in DOMAIN data |-> Range(data[t])], doc_count,
                Cardinality(DOMAIN data))

\* from_dict called without the document count
from_dict_without_count(data, doc_count) ==
    IndexObject([t \in DOMAIN data |-> Range(data[t])], 0, SumLen(data, DOMAIN data))

from_dict(data, doc_count) ==
    IndexObject([t \in DOMAIN data |-> Range(data[t])], doc_count,
                SumLen(data, DOMAIN data))

\* the orders list(a_set) can have
Lists(S) == {l \in [1..Cardinality(S) -> S] : Range(l) = S}

\* InvertedIndex.to_dict, the list of every posting set in any of its orders
to_dicts(obj) ==
    LET lists == UNION {Lists(obj.index[t]) : t \in DOMAIN obj.index} IN
    {data \in [DOMAIN obj.index -> lists] :
        \A t \in DOMAIN obj.index : data[t] \in Lists(obj.index[t])}

\* what save_inverted_index writes, by format
SavedJson(obj) == [format |-> "json",
                   data |-> [index |-> to_dict(obj),
                             document_count |-> obj.document_count,
                             total_terms |-> obj.total_terms]]
SavedPickle(obj) == [format |-> "pickle", object |-> obj]

Formats == {"json", "pickle", "xml"}

\* os.path.dirname of the paths of the model
dirname(path) ==
    CASE path = "out/index.json" -> "out"
      [] path = "out/index.pkl" -> "out"
      [] OTHER -> ""

\* a file system: the files by path and the directories made
FileSystem(files, dirs) == [files |-> files, dirs |-> dirs]

\* save_inverted_index making the output directory before it looks at the format
save_making_directory_first(fs, obj, output_path, format) ==
    LET output_dir == dirname(output_path)
        dirs == IF output_dir # "" THEN fs.dirs \cup {output_dir} ELSE fs.dirs
    IN  IF format \notin {"json", "pickle"}
        THEN {[raised |-> "ValueError: format must be 'json' or 'pickle'",
               fs |-> FileSystem(fs.files, dirs)]}
        ELSE {[raised |-> NoError,
               fs |-> FileSystem([q \in DOMAIN fs.files \cup {output_path} |->
                                     IF q = output_path THEN content ELSE fs.files[q]],
                                 dirs)] :
                 content \in IF format = "json"
                             THEN {[SavedJson(obj) EXCEPT !.data.index = data] :
                                       data \in to_dicts(obj)}
                             ELSE {SavedPickle(obj)}}

\* save_inverted_index: what it raised and the file system afterwards, for
\* every order the lists of the JSON form can come in
save_inverted_index(fs, obj, output_path, format) ==
    IF format \notin {"json", "pickle"}
    THEN {[raised |-> "ValueError: format must be 'json' or 'pickle'", fs |-> fs]}
    ELSE LET output_dir == dirname(output_path)
             dirs == IF output_dir # "" THEN fs.dirs \cup {output_dir} ELSE fs.dirs
             contents == IF format = "json"
                         THEN {[SavedJson(obj) EXCEPT !.data.index = data] :
                                   data \in to_dicts(obj)}
                         ELSE {SavedPickle(obj)}
         IN  {[raised |-> NoError,
               fs |-> FileSystem([q \in DOMAIN fs.files \cup {output_path} |->
                                     IF q = output_path THEN content ELSE fs.files[q]],
                                 dirs)] : content \in contents}

\* load_inverted_index keeping the total_terms that from_dict summed up
load_keeping_sum(files, input_path, format) ==
    IF input_path \notin DOMAIN files
    THEN Raised("FileNotFoundError: Index file not found")
    ELSE IF format \notin {"json", "pickle"}
    THEN Raised("ValueError: format must be 'json' or 'pickle'")
    ELSE LET file == files[input_path] IN
         IF format = "json"
         THEN IF file.format # "json" THEN Raised("UnicodeDecodeError")
              ELSE Returned(from_dict(file.data.index, file.data.document_count))
         ELSE IF file.format # "pickle" THEN Raised("UnpicklingError")
              ELSE Returned(file.object)

\* load_inverted_index over the files of a file system
load(files, input_path, format) ==
    IF input_path \notin DOMAIN files
    THEN Raised("FileNotFoundError: Index file not found")
    ELSE IF format \notin {"json", "pickle"}
    THEN Raised("ValueError: format must be 'json' or 'pickle'")
    ELSE LET file == files[input_path] IN
         IF format = "json"
         THEN IF file.format # "json" THEN Raised("UnicodeDecodeError")
              ELSE Returned([from_dict(file.data.index, file.data.document_count)
                                EXCEPT !.total_terms = file.data.total_terms])
         ELSE IF file.format # "pickle" THEN Raised("UnpicklingError")
              ELSE Returned(file.object)

(***************************************************************************)
(* The index machine: one InvertedIndex object under add_document,         *)
(* get_documents and search calls.                                         *)
(***************************************************************************)
\* tokens handed to add_document: two words and a blank (whitespace only) token
Tokens == {<<NA>>, <<PA>>, <<SPACE>>}

\* terms asked for: the two words and one never added
QueryTerms == {<<NA>>, <<PA>>, <<LA>>}

SeqsUpTo(S, n) == UNION {[1..k -> S] : k \in 0..n}

Self == IndexObject(index, document_count, total_terms)

Occurrences(terms, t) == Cardinality({i \in 1..Len(terms) : terms[i] = t})

NoCall == [op |-> "none"]

InitIndex ==
    /\ index = EmptyIndex.index
    /\ document_count = EmptyIndex.document_count
    /\ total_terms = EmptyIndex.total_terms
    /\ contributed = [p \in Tokens \X Docs |-> 0]
    /\ engine = None
    /\ supplied = FALSE
    /\ served = <<>>
    /\ disk = FileSystem(<<>>, {})
    /\ call = NoCall
    /\ result = Returned(None)

AddDocument(doc_id, terms) ==
    /\ call = NoCall
    /\ document_count < MaxAdds
    /\ LET obj == add_document(Self, doc_id, terms) IN
        /\ index' = obj.index
        /\ document_count' = obj.document_count
        /\ total_terms' = obj.total_terms
    /\ contributed' = [p \in Tokens \X Docs |->
           contributed[p] + (IF p[2] = doc_id THEN Occurrences(terms, p[1]) ELSE 0)]
    /\ call' = [op |-> "add_document", doc_id |-> doc_id, terms |-> terms,
                operation |-> None]
    /\ result' = Returned(None)
    /\ UNCHANGED <<engine, supplied, served, disk>>

GetDocuments(term) ==
    /\ call = NoCall
    /\ call' = [op |-> "get_documents", doc_id |-> None, terms |-> <<term>>,
                operation |-> None]
    /\ result' = Returned(get_documents(index, term))
    /\ index' = index_get(index, term).index
    /\ UNCHANGED <<document_count, total_terms, contributed, engine, supplied, served, disk>>

Search(query_terms, operation) ==
    /\ call = NoCall
    /\ call' = [op |-> "search", doc_id |-> None, terms |-> query_terms,
                operation |-> operation]
    /\ result' = search(index, query_terms, operation)
    /\ index' = index_after(index, looked_up(query_terms, operation))
    /\ UNCHANGED <<document_count, total_terms, contributed, engine, supplied, served, disk>>

\* InvertedIndex.from_dict(self.to_dict(), self.document_count)
FromDictOfToDict ==
    /\ call = NoCall
    /\ call' = [op |-> "from_dict_of_to_dict", doc_id |-> None, terms |-> <<>>,
                operation |-> None]
    /\ \E data \in to_dicts(Self) : result' = Returned(from_dict(data, document_count))
    /\ UNCHANGED <<index, document_count, total_terms, contributed, engine, supplied, served, disk>>

\* save_inverted_index(self, path, format) into an empty directory, then
\* load_inverted_index(path, format)
SaveThenLoad(output_path, format) ==
    /\ call = NoCall
    /\ call' = [op |-> "save_then_load", doc_id |-> None, terms |-> <<>>,
                operation |-> None, path |-> output_path, format |-> format]
    /\ \E saved \in save_inverted_index(FileSystem(<<>>, {}), Self, output_path, format) :
           result' = IF saved.raised # NoError THEN Raised(saved.raised)
                     ELSE load(saved.fs.files, output_path, format)
    /\ UNCHANGED <<index, document_count, total_terms, contributed, engine, supplied, served, disk>>

\* the caller takes the result and goes on to its next call
Return ==
    /\ call # NoCall
    /\ call' = NoCall
    /\ result' = Returned(None)
    /\ UNCHANGED <<index, document_count, total_terms, contributed, engine, supplied, served, disk>>

Next ==
    \/ \E doc_id \in Docs, terms \in SeqsUpTo(Tokens, MaxTerms) :
           AddDocument(doc_id, terms)
    \/ \E term \in QueryTerms : GetDocuments(term)
    \/ \E query_terms \in SeqsUpTo(QueryTerms, MaxTerms), operation \in Operations :
           Search(query_terms, operation)
    \/ FromDictOfToDict
    \/ \E output_path \in {"index.json", "out/index.pkl"}, format \in Formats :
           SaveThenLoad(output_path, format)
    \/ Return

Spec == InitIndex /\ [][Next]_vars

(***************************************************************************)
(* Properties of the index machine.                                        *)
(***************************************************************************)
Reverse(s) == [i \in 1..Len(s) |-> s[Len(s) + 1 - i]]

IsBlank(t) == strip(t) = <<>>

\* the (token, document id) pairs the postings store
Postings(idx) == UNION {{<<t, d>> : d \in idx[t]} : t \in DOMAIN idx}

IsSearchCall == call.op = "search"

\* C1: search with a non-empty term list returns exactly the intersection
\* (AND) or the union (OR) of get_documents(t) over the listed terms; so the
\* order of the terms does not matter and a single term gives get_documents(t).
C1_SearchIsIntersectionOrUnion ==
    (IsSearchCall /\ call.terms # <<>> /\ upper(call.operation) \in {"AND", "OR"}) =>
        LET n == Len(call.terms)
            all == {d \in Docs : \A i \in 1..n : d \in get_documents(index, call.terms[i])}
            any == {d \in Docs : \E i \in 1..n : d \in get_documents(index, call.terms[i])}
            expected == IF upper(call.operation) = "AND" THEN all ELSE any
        IN  /\ result = Returned(expected)
            /\ search(index, Reverse(call.terms), call.operation) = result
            /\ n = 1 => result.value = get_documents(index, call.terms[1])

\* an AND search of two different terms that keeps some documents of the first
\* term and drops others
C1_Witness ==
    /\ IsSearchCall /\ Len(call.terms) = 2 /\ call.operation = "AND"
    /\ call.terms[1] # call.terms[2]
    /\ result.value # {}
    /\ result.value # get_documents(index, call.terms[1])

AddEffect(Counted(_)) ==
    LET d == call'.doc_id
        ts == call'.terms
        posted == {ts[i] : i \in {j \in 1..Len(ts) : Counted(ts[j])}}
    IN  call'.op = "add_document" =>
            /\ document_count' = document_count + 1
            /\ total_terms' = total_terms
                   + Cardinality({i \in 1..Len(ts) : Counted(ts[i])})
            /\ DOMAIN index' = DOMAIN index \cup posted
            /\ \A t \in DOMAIN index' :
                   index'[t] = get_documents(index, t)
                                   \cup (IF t \in posted THEN {d} ELSE {})

NonBlank(t) == ~IsBlank(t)
NonEmpty(t) == t # <<>>

\* C2 (as amended): each add_document(doc_id, tokens) call increases
\* document_count by exactly 1, adds doc_id to the posting set of every
\* non-blank token of tokens and to no other posting set, and increases
\* total_terms by the number of non-blank tokens counted with repetition.
C2_AddDocumentEffect == [][AddEffect(NonBlank)]_vars

\* C2 as stated: the same with "non-empty" for "non-blank".
C2_AddDocumentEffectNonEmpty == [][AddEffect(NonEmpty)]_vars

\* a document id added a second time, with a token it was already posted
\* under and a blank token
C2_Witness ==
    /\ call.op = "add_document" /\ document_count = 2
    /\ \E i \in 1..Len(call.terms) : IsBlank(call.terms[i])
    /\ \E i \in 1..Len(call.terms) :
           /\ ~IsBlank(call.terms[i])
           /\ contributed[<<call.terms[i], call.doc_id>>] = 2

TotalVersusPostings(Counted(_)) ==
    LET pairs == Cardinality(Postings(index))
        once == \A p \in DOMAIN contributed : Counted(p[1]) => contributed[p] <= 1
    IN  /\ total_terms >= pairs
        /\ (total_terms = pairs) <=> once

\* C3 (as amended): total_terms >= the number of (token, doc_id) pairs in the
\* postings, with equality exactly when no pair with a non-blank token was
\* contributed more than once.
C3_TotalTermsVersusPostings == TotalVersusPostings(NonBlank)

\* C3 as stated: equality exactly when no pair at all was contributed twice.
C3_TotalTermsVersusPostingsAnyToken == TotalVersusPostings(NonEmpty)

\* both sides of the equivalence: a repeated pair, and total_terms above the
\* number of stored pairs
C3_Witness ==
    /\ total_terms > Cardinality(Postings(index))
    /\ Cardinality(Postings(index)) >= 2
    /\ \E p \in DOMAIN contributed : ~IsBlank(p[1]) /\ contributed[p] = 2

\* C4: search with one or more terms and an operation that is neither AND
\* nor OR fails with ValueError.
C4_InvalidOperationRaises ==
    (IsSearchCall /\ call.terms # <<>> /\ upper(call.operation) \notin {"AND", "OR"}) =>
        result.raised # NoError

\* C5: search with an empty term list returns the empty set for any
\* operation string, raises nothing and leaves the index as it was.
C5_EmptySearch ==
    [][(call'.op = "search" /\ call'.terms = <<>>) =>
           /\ result'.raised = NoError
           /\ result'.value = {}
           /\ UNCHANGED <<index, document_count, total_terms>>]_vars

\* an empty search with an operation that is neither AND nor OR, on an index
\* that holds postings
C5_Witness ==
    /\ IsSearchCall /\ call.terms = <<>>
    /\ upper(call.operation) \notin {"AND", "OR"}
    /\ Postings(index) # {}
    /\ result = Returned({})

\* C12: get_documents and search are read-only: for any token or term list,
\* tokens never added included, they leave the postings, the number of
\* distinct terms, document_count and total_terms unchanged; get_documents of
\* an unknown token returns the empty set and creates no entry for it.
C12_ReadOnly ==
    [][call'.op \in {"get_documents", "search"} =>
           /\ index' = index
           /\ Cardinality(DOMAIN index') = Cardinality(DOMAIN index)
           /\ document_count' = document_count
           /\ total_terms' = total_terms
           /\ (call'.op = "get_documents" /\ call'.terms[1] \notin DOMAIN index) =>
                  /\ result'.raised = NoError
                  /\ result'.value = {}
                  /\ call'.terms[1] \notin DOMAIN index'
      ]_vars

\* a search over two terms, one of them never added, on an index with postings
C12_Witness ==
    /\ call.op = "search" /\ Len(call.terms) = 2
    /\ \E i \in 1..2 : call.terms[i] \notin DOMAIN index
    /\ \E i \in 1..2 : call.terms[i] \in DOMAIN index
    /\ result.raised = NoError
    /\ total_terms > 0

\* C13: for every index reachable by add_document calls,
\* from_dict(idx.to_dict(), idx.document_count) has the same token keys, for
\* every token the same posting set, and the same document_count.
C13_DictRoundTrip ==
    call.op = "from_dict_of_to_dict" =>
        /\ result.raised = NoError
        /\ DOMAIN result.value.index = DOMAIN index
        /\ \A t \in DOMAIN index : result.value.index[t] = index[t]
        /\ result.value.document_count = document_count

\* the round trip of an index with a posting set of two documents, built by
\* two add_document calls, one of them with a repeated token
C13_Witness ==
    /\ call.op = "from_dict_of_to_dict"
    /\ document_count = 2
    /\ \E t \in DOMAIN index : Cardinality(index[t]) = 2
    /\ \E p \in DOMAIN contributed : contributed[p] = 2
    /\ result.value.index = index

\* C14: for every index reachable by add_document calls and each of json and
\* pickle, load_inverted_index of the file save_inverted_index wrote yields
\* the same posting sets, document_count and total_terms, also for documents
\* with repeated tokens.
C14_FileRoundTrip ==
    (call.op = "save_then_load" /\ call.format \in {"json", "pickle"}) =>
        /\ result.raised = NoError
        /\ result.value.index = index
        /\ result.value.document_count = document_count
        /\ result.value.total_terms = total_terms

\* the JSON round trip of an index of one document with a token twice: more
\* terms counted than postings held
C14_Witness ==
    /\ call.op = "save_then_load" /\ call.format = "json"
    /\ document_count = 1
    /\ \E pair \in DOMAIN contributed : contributed[pair] = 2
    /\ total_terms = 2
    /\ result.value.total_terms = 2
    /\ SumLen(to_dict(Self), DOMAIN index) = 1

(***************************************************************************)
(* Tokenizer                                                               *)
(***************************************************************************)
\* [\u0900-\u0963\u0966-\u097F]: the Devanagari block without U+0964, U+0965
Devanagari == (2304..2403) \cup (2406..2431)

\* the code points of the default sentence_delimiters class, as the source
\* file holds them, with '!' and '?'
SentenceDelimiters == {CYR_ER, CYR_IE, CYR_DE, BANG, QMARK}

\* re.findall of "[class]+": the maximal runs of code points of the class
RECURSIVE findall(_, _, _, _)
findall(class, text, i, run) ==
    LET flush == IF run = <<>> THEN <<>> ELSE <<run>> IN
    IF i > Len(text) THEN flush
    ELSE IF text[i] \in class THEN findall(class, text, i + 1, Append(run, text[i]))
    ELSE flush \o findall(class, text, i + 1, <<>>)

\* str.split(): the maximal runs of code points that are not whitespace
RECURSIVE split_whitespace(_, _, _)
split_whitespace(text, i, run) ==
    LET flush == IF run = <<>> THEN <<>> ELSE <<run>> IN
    IF i > Len(text) THEN flush
    ELSE IF ~IsSpace(text[i]) THEN split_whitespace(text, i + 1, Append(run, text[i]))
    ELSE flush \o split_whitespace(text, i + 1, <<>>)

\* re.split of "[class]": the pieces between delimiters, empty ones included
RECURSIVE re_split(_, _, _, _)
re_split(class, text, i, piece) ==
    IF i > Len(text) THEN <<piece>>
    ELSE IF text[i] \in class THEN <<piece>> \o re_split(class, text, i + 1, <<>>)
    ELSE re_split(class, text, i + 1, Append(piece, text[i]))

Map(f(_), seq) == [i \in 1..Len(seq) |-> f(seq[i])]

RECURSIVE Filter(_, _)
Filter(seq, keep) ==
    IF seq = <<>> THEN <<>>
    ELSE (IF Head(seq) \in keep THEN <<Head(seq)>> ELSE <<>>) \o Filter(Tail(seq), keep)

\* the elements of seq whose stripped form is not empty, in order
NonBlankOnly(seq) == Filter(seq, {x \in Range(seq) : strip(x) # <<>>})

\* tokenize_text returning its tokens last to first
tokenize_text_reversed(text, mode) ==
    IF text = <<>> \/ strip(text) = <<>> THEN Returned(<<>>)
    ELSE IF mode = "regex"
    THEN Returned([i \in 1..Len(findall(Devanagari, text, 1, <<>>)) |->
             findall(Devanagari, text, 1, <<>>)[Len(findall(Devanagari, text, 1, <<>>)) + 1 - i]])
    ELSE Raised("ValueError: mode must be 'space' or 'regex'")

\* tokenize_text(text, mode) with the default pattern
tokenize_text(text, mode) ==
    IF text = <<>> \/ strip(text) = <<>> THEN Returned(<<>>)
    ELSE IF mode = "space"
    THEN Returned(Map(lower, NonBlankOnly(
             NonBlankOnly(Map(strip, split_whitespace(text, 1, <<>>))))))
    ELSE IF mode = "regex"
    THEN Returned(Map(lower, NonBlankOnly(findall(Devanagari, text, 1, <<>>))))
    ELSE Raised("ValueError: mode must be 'space' or 'regex'")

\* tokenize_sentences(text) with the default delimiters
tokenize_sentences(text) ==
    IF text = <<>> \/ strip(text) = <<>> THEN <<>>
    ELSE NonBlankOnly(Map(strip, re_split(SentenceDelimiters, text, 1, <<>>)))

(***************************************************************************)
(* The files the engine reads: corpus CSV files and saved indexes.         *)
(***************************************************************************)
Row(filename, content) == [filename |-> filename, content |-> content]

\* corpus.csv: d1 twice (the second row has words of its own), d2 with a
\* danda between words, d3 without content
CorpusRows ==
    << Row("d1", <<NA, SPACE, PA, BANG, SPACE, PA, SPACE, NA, QMARK, NA>>),
       Row("d2", <<PA, DANDA, LA, SPACE, CYR_ER, PA>>),
       Row("d1", <<LA, SPACE, LA, BANG>>),
       Row("d3", <<>>) >>

\* other.csv: d2 with other content, and d4 whose one word begins with the
\* word of d2
OtherRows ==
    << Row("d2", <<NA, BANG, LA, SPACE, NA>>),
       Row("d4", <<NA, PA>>) >>

CorpusFiles == [p \in {"corpus.csv", "other.csv"} |->
                   IF p = "corpus.csv" THEN CorpusRows ELSE OtherRows]

\* build_inverted_index_from_csv: add_document per row, tokenized with the
\* default pattern
RECURSIVE build_rows(_, _)
build_rows(obj, rows) ==
    IF rows = <<>> THEN obj
    ELSE build_rows(add_document(obj, Head(rows).filename,
                                 tokenize_text(Head(rows).content, "regex").value),
                    Tail(rows))

build_inverted_index_from_csv(csv_path) == build_rows(EmptyIndex, CorpusFiles[csv_path])

\* the row loop of build_inverted_index_from_csv for any tokenizer_mode: a
\* row whose tokenization raises is reported and skipped
RECURSIVE build_rows_in_mode(_, _, _)
build_rows_in_mode(obj, rows, tokenizer_mode) ==
    IF rows = <<>> THEN obj
    ELSE LET terms == tokenize_text(Head(rows).content, tokenizer_mode) IN
         build_rows_in_mode(IF terms.raised # NoError THEN obj
                            ELSE add_document(obj, Head(rows).filename, terms.value),
                            Tail(rows), tokenizer_mode)

\* build_inverted_index_from_csv(csv_path, tokenizer_mode=tokenizer_mode)
build_index_from_csv(csv_path, tokenizer_mode) ==
    IF csv_path \notin DOMAIN CorpusFiles
    THEN Raised("FileNotFoundError: CSV file not found")
    ELSE Returned(build_rows_in_mode(EmptyIndex, CorpusFiles[csv_path], tokenizer_mode))

IndexFiles == [p \in {"inverted_index.json", "other_index.pkl"} |->
                  IF p = "inverted_index.json"
                  THEN SavedJson(build_inverted_index_from_csv("corpus.csv"))
                  ELSE SavedPickle(build_inverted_index_from_csv("other.csv"))]

\* load_inverted_index over the saved indexes above
load_inverted_index(input_path, format) == load(IndexFiles, input_path, format)

(***************************************************************************)
(* SearchEngine                                                            *)
(***************************************************************************)
context_length == 100

NoIndexError ==
    "ValueError: No index loaded. Use load_index() or provide index during initialization."
SentenceSearchError ==
    "ValueError: Both index and corpus CSV must be available for sentence search."

\* SearchEngine.__init__
SearchEngine(idx, corpus_csv) ==
    [index |-> idx, corpus_csv |-> corpus_csv, document_cache |-> <<>>]

\* Python's truth value of an Optional[int] and of an Optional[str]
TruthyInt(limit) == limit # Nothing /\ Get(limit) # 0
TruthyStr(text) == text # None /\ text # ""

\* seq[:n] for n >= 0
Take(seq, n) == SubSeq(seq, 1, IF n < Len(seq) THEN n ELSE Len(seq))

\* find, returning the start of the last occurrence
find_last(content, sentence) ==
    LET starts == {i \in 0..(Len(content) - Len(sentence)) :
                      SubSeq(content, i + 1, i + Len(sentence)) = sentence}
    IN  IF starts = {} THEN -1
        ELSE CHOOSE i \in starts : \A j \in starts : i >= j

\* str.find: the 0-based start of the first occurrence, or -1
find(content, sentence) ==
    LET starts == {i \in 0..(Len(content) - Len(sentence)) :
                      SubSeq(content, i + 1, i + Len(sentence)) = sentence}
    IN  IF starts = {} THEN -1
        ELSE CHOOSE i \in starts : \A j \in starts : i <= j

Max(a, b) == IF a >= b THEN a ELSE b
Min(a, b) == IF a <= b THEN a ELSE b

Ellipsis == <<DOT, DOT, DOT>>

\* SearchEngine._get_sentence_context
get_sentence_context(content, sentence, length) ==
    LET sentence_start == find(content, sentence)
        context_start == Max(0, sentence_start - length)
        context_end == Min(Len(content), sentence_start + Len(sentence) + length)
    IN  IF sentence_start = -1 THEN sentence
        ELSE (IF context_start > 0 THEN Ellipsis ELSE <<>>)
             \o SubSeq(content, context_start + 1, context_end)
             \o (IF context_end < Len(content) THEN Ellipsis ELSE <<>>)

\* search_documents, tokenizing the query before it looks for the index
search_documents_tokenizing_first(self, query, operation, limit) ==
    LET query_terms == tokenize_text(query, "regex").value IN
    IF query_terms = <<>> THEN {Returned(<<>>)}
    ELSE IF self.index = Nothing THEN {Raised(NoIndexError)}
    ELSE LET results == search(Get(self.index).index, query_terms, operation) IN
         IF results.raised # NoError THEN {results}
         ELSE {Returned(IF TruthyInt(limit) THEN Take(result_list, Get(limit))
                                            ELSE result_list) :
                   result_list \in Lists(results.value)}

\* SearchEngine.search_documents: the outcomes it can have (list(results) may
\* come in any order)
search_documents(self, query, operation, limit) ==
    IF self.index = Nothing THEN {Raised(NoIndexError)}
    ELSE LET query_terms == tokenize_text(query, "regex").value IN
         IF query_terms = <<>> THEN {Returned(<<>>)}
         ELSE LET results == search(Get(self.index).index, query_terms, operation) IN
              IF results.raised # NoError THEN {results}
              ELSE {Returned(IF TruthyInt(limit) THEN Take(result_list, Get(limit))
                                                 ELSE result_list) :
                        result_list \in Lists(results.value)}

SentenceResult(doc_id, content, sentence) ==
    [document |-> doc_id, sentence |-> strip(sentence),
     context |-> get_sentence_context(content, sentence, context_length)]

\* sentence_matches, asking for one query term whatever the operation
sentence_matches_any(sentence, query_terms_lower, operation) ==
    LET sentence_tokens_lower == Map(lower, tokenize_text(sentence, "regex").value) IN
    \E i \in 1..Len(query_terms_lower) :
        query_terms_lower[i] \in Range(sentence_tokens_lower)

\* the test of one sentence against the query terms
sentence_matches(sentence, query_terms_lower, operation) ==
    LET sentence_tokens_lower == Map(lower, tokenize_text(sentence, "regex").value) IN
    IF upper(operation) = "AND"
    THEN \A i \in 1..Len(query_terms_lower) :
             query_terms_lower[i] \in Range(sentence_tokens_lower)
    ELSE \E i \in 1..Len(query_terms_lower) :
             query_terms_lower[i] \in Range(sentence_tokens_lower)

\* the loop over the sentences of one row; returned: the limit was reached
RECURSIVE scan_sentences(_, _, _, _, _, _, _)
scan_sentences(doc_id, content, sentences, query_terms_lower, operation, limit, acc) ==
    IF sentences = <<>> THEN [returned |-> FALSE, results |-> acc]
    ELSE LET sentence == Head(sentences)
             sentence_results ==
                 IF sentence_matches(sentence, query_terms_lower, operation)
                 THEN Append(acc, SentenceResult(doc_id, content, sentence))
                 ELSE acc
         IN  IF TruthyInt(limit) /\ Len(sentence_results) >= Get(limit)
             THEN [returned |-> TRUE, results |-> Take(sentence_results, Get(limit))]
             ELSE scan_sentences(doc_id, content, Tail(sentences), query_terms_lower,
                                 operation, limit, sentence_results)

\* the loop over the rows of the corpus CSV
RECURSIVE scan_rows(_, _, _, _, _, _)
scan_rows(rows, doc_ids, query_terms_lower, operation, limit, acc) ==
    IF rows = <<>> THEN acc
    ELSE LET doc_id == Head(rows).filename
             content == Head(rows).content
         IN  IF doc_id \notin Range(doc_ids) \/ content = <<>>
             THEN scan_rows(Tail(rows), doc_ids, query_terms_lower, operation, limit, acc)
             ELSE LET r == scan_sentences(doc_id, content, tokenize_sentences(content),
                                          query_terms_lower, operation, limit, acc)
                  IN  IF r.returned THEN r.results
                      ELSE scan_rows(Tail(rows), doc_ids, query_terms_lower, operation,
                                     limit, r.results)

\* SearchEngine.search_sentences: the outcomes it can have
search_sentences(self, query, operation, limit) ==
    IF self.index = Nothing \/ ~TruthyStr(self.corpus_csv)
    THEN {Raised(SentenceSearchError)}
    ELSE {IF docs.raised # NoError THEN docs
          ELSE IF docs.value = <<>> THEN Returned(<<>>)
          ELSE Returned(scan_rows(CorpusFiles[self.corpus_csv], docs.value,
                                  Map(lower, tokenize_text(query, "regex").value),
                                  operation, limit, <<>>)) :
             docs \in search_documents(self, query, operation, Nothing)}

\* re.sub(re.escape(term), "**term**", text) under re.IGNORECASE
RECURSIVE highlight_one(_, _, _)
highlight_one(text, term, i) ==
    IF i > Len(text) THEN <<>>
    ELSE IF i + Len(term) - 1 <= Len(text)
            /\ lower(SubSeq(text, i, i + Len(term) - 1)) = lower(term)
    THEN <<STAR, STAR>> \o term \o <<STAR, STAR>>
             \o highlight_one(text, term, i + Len(term))
    ELSE <<text[i]>> \o highlight_one(text, term, i + 1)

\* SearchEngine._highlight_terms
RECURSIVE highlight_terms(_, _)
highlight_terms(text, terms) ==
    IF terms = <<>> THEN text
    ELSE highlight_terms(highlight_one(text, Head(terms), 1), Tail(terms))

Highlighted(r, query_terms) ==
    [document |-> r.document,
     sentence |-> highlight_terms(r.sentence, query_terms),
     context |-> highlight_terms(r.context, query_terms),
     original_sentence |-> r.sentence]

\* SearchEngine.search_with_highlight for one outcome of search_sentences
highlighted_results(results, query) ==
    IF results.raised # NoError THEN results
    ELSE LET query_terms == tokenize_text(query, "regex").value IN
         Returned([i \in 1..Len(results.value) |->
                      Highlighted(results.value[i], query_terms)])

\* SearchEngine.search_with_highlight: the outcomes it can have
search_with_highlight(self, query, operation, limit) ==
    {highlighted_results(results, query) :
        results \in search_sentences(self, query, operation, limit)}

\* the first row of rows whose filename is doc_id, as an Optional
RECURSIVE first_row(_, _)
first_row(rows, doc_id) ==
    IF rows = <<>> THEN Nothing
    ELSE IF Head(rows).filename = doc_id THEN Some(Head(rows))
    ELSE first_row(Tail(rows), doc_id)

\* get_document_content that looks in the corpus before it looks in the cache
get_document_content_reading_first(self, doc_id) ==
    IF ~TruthyStr(self.corpus_csv)
    THEN [self |-> self, value |-> Nothing, opened |-> FALSE]
    ELSE LET row == first_row(CorpusFiles[self.corpus_csv], doc_id) IN
         IF row # Nothing
         THEN [self |-> [self EXCEPT !.document_cache =
                            (doc_id :> Get(row).content) @@ self.document_cache],
               value |-> Some(Get(row).content), opened |-> TRUE]
         ELSE [self |-> self, value |-> Nothing, opened |-> TRUE]

\* SearchEngine.get_document_content: the engine afterwards, the Optional[str]
\* returned, and whether the corpus file was opened
get_document_content(self, doc_id) ==
    IF ~TruthyStr(self.corpus_csv)
    THEN [self |-> self, value |-> Nothing, opened |-> FALSE]
    ELSE IF doc_id \in DOMAIN self.document_cache
    THEN [self |-> self, value |-> Some(self.document_cache[doc_id]), opened |-> FALSE]
    ELSE LET row == first_row(CorpusFiles[self.corpus_csv], doc_id) IN
         IF row # Nothing
         THEN [self |-> [self EXCEPT !.document_cache =
                            (doc_id :> Get(row).content) @@ self.document_cache],
               value |-> Some(Get(row).content), opened |-> TRUE]
         ELSE [self |-> self, value |-> Nothing, opened |-> TRUE]

(***************************************************************************)
(* The engine machine: one SearchEngine over the files above, under        *)
(* load_index, set_corpus_csv and the three searches.                      *)
(***************************************************************************)
IndexArgs ==
    {Nothing} \cup {Some(build_inverted_index_from_csv(p)) : p \in DOMAIN CorpusFiles}
CorpusArgs == {None, ""} \cup DOMAIN CorpusFiles
IndexPaths == DOMAIN IndexFiles \cup {"missing.json"}
Limits == {Nothing} \cup {Some(n) : n \in 0..MaxLimit}

\* query strings: empty, blank, punctuation only, one word, two words, a
\* word and a longer word that begins with it
Queries ==
    { <<>>, <<SPACE>>, <<BANG>>, <<NA>>, <<PA>>,
      <<NA, SPACE, PA>>, <<LA, SPACE, NA>>, <<NA, SPACE, NA, PA>> }

QueryCall(op, query, operation, limit) ==
    [op |-> op, query |-> query, operation |-> operation, limit |-> limit]

InitEngine ==
    /\ index = EmptyIndex.index
    /\ document_count = EmptyIndex.document_count
    /\ total_terms = EmptyIndex.total_terms
    /\ contributed = <<>>
    /\ \E idx \in IndexArgs, corpus_csv \in CorpusArgs :
           /\ engine = SearchEngine(idx, corpus_csv)
           /\ supplied = (idx # Nothing)
    /\ served = <<>>
    /\ disk = FileSystem(<<>>, {})
    /\ call = NoCall
    /\ result = Returned(None)

LoadIndex(index_path, format) ==
    /\ call = NoCall
    /\ call' = [op |-> "load_index", index_path |-> index_path, format |-> format]
    /\ LET loaded == load_inverted_index(index_path, format) IN
       IF loaded.raised # NoError
       THEN /\ result' = loaded
            /\ UNCHANGED <<engine, supplied, served, disk>>
       ELSE /\ engine' = [engine EXCEPT !.index = Some(loaded.value)]
            /\ supplied' = TRUE
            /\ result' = Returned(None)
    /\ UNCHANGED <<index, document_count, total_terms, contributed, served, disk>>

SetCorpusCsv(corpus_csv) ==
    /\ call = NoCall
    /\ call' = [op |-> "set_corpus_csv", corpus_csv |-> corpus_csv]
    /\ engine' = [engine EXCEPT !.corpus_csv = corpus_csv]
    /\ result' = Returned(None)
    /\ UNCHANGED <<index, document_count, total_terms, contributed, supplied, served, disk>>

SearchDocuments(query, operation, limit) ==
    /\ call = NoCall
    /\ call' = QueryCall("search_documents", query, operation, limit)
    /\ result' \in search_documents(engine, query, operation, limit)
    /\ UNCHANGED <<index, document_count, total_terms, contributed, engine, supplied, served, disk>>

SearchSentences(query, operation, limit) ==
    /\ call = NoCall
    /\ call' = QueryCall("search_sentences", query, operation, limit)
    /\ result' \in search_sentences(engine, query, operation, limit)
    /\ UNCHANGED <<index, document_count, total_terms, contributed, engine, supplied, served, disk>>

SearchWithHighlight(query, operation, limit) ==
    /\ call = NoCall
    /\ call' = QueryCall("search_with_highlight", query, operation, limit)
    /\ result' \in search_with_highlight(engine, query, operation, limit)
    /\ UNCHANGED <<index, document_count, total_terms, contributed, engine, supplied, served, disk>>

\* texts and term lists given to _highlight_terms: terms that repeat, and
\* terms that other terms begin with
HighlightTexts == { <<>>, <<LA>>, <<NA, PA>>, <<NA, SPACE, PA>> }
HighlightTermLists == SeqsUpTo({<<NA>>, <<PA>>, <<NA, PA>>}, MaxTerms)

HighlightTerms(text, terms) ==
    /\ call = NoCall
    /\ call' = [op |-> "_highlight_terms", text |-> text, terms |-> terms]
    /\ result' = Returned(highlight_terms(text, terms))
    /\ UNCHANGED <<index, document_count, total_terms, contributed, engine, supplied, served, disk>>

\* document ids asked for: in both corpus files, in one, with empty content,
\* in none
DocumentIds == {"d1", "d2", "d3", "d9"}

GetDocumentContent(doc_id) ==
    /\ call = NoCall
    /\ call' = [op |-> "get_document_content", doc_id |-> doc_id]
    /\ LET got == get_document_content(engine, doc_id) IN
        /\ engine' = got.self
        /\ result' = Returned(got.value)
        /\ served' = IF got.value = Nothing THEN served
                     ELSE (doc_id :> Get(got.value)) @@ served
    /\ UNCHANGED <<index, document_count, total_terms, contributed, supplied, disk>>

NextEngine ==
    \/ \E index_path \in IndexPaths, format \in Formats : LoadIndex(index_path, format)
    \/ \E corpus_csv \in CorpusArgs : SetCorpusCsv(corpus_csv)
    \/ \E query \in Queries, operation \in Operations, limit \in Limits :
           \/ SearchDocuments(query, operation, limit)
           \/ SearchSentences(query, operation, limit)
           \/ SearchWithHighlight(query, operation, limit)
    \/ \E doc_id \in DocumentIds : GetDocumentContent(doc_id)
    \/ \E text \in HighlightTexts, terms \in HighlightTermLists :
           HighlightTerms(text, terms)
    \/ Return

SpecEngine == InitEngine /\ [][NextEngine]_vars

(***************************************************************************)
(* Properties of the engine machine.                                       *)
(***************************************************************************)
QueryOps == {"search_documents", "search_sentences", "search_with_highlight"}

CorpusMissing(self) == self.corpus_csv \in {None, ""}

\* C6: search_documents fails with the "no index" error exactly when no index
\* has been supplied or loaded; search_sentences and search_with_highlight
\* fail with their precondition error exactly when the index or the corpus
\* store is missing, whatever the query; a failed call leaves the engine as
\* it was.
C6_Preconditions ==
    [][/\ call'.op = "search_documents" =>
              (result'.raised = NoIndexError <=> ~supplied)
       /\ call'.op \in {"search_sentences", "search_with_highlight"} =>
              (result'.raised = SentenceSearchError
                  <=> (~supplied \/ CorpusMissing(engine)))
       /\ result'.raised # NoError => engine' = engine /\ supplied' = supplied
      ]_vars

\* an engine that never got an index: search_documents fails for a
\* non-empty query that tokenizes to nothing
C6_Witness ==
    /\ call.op = "search_documents"
    /\ result.raised = NoIndexError
    /\ ~supplied
    /\ call.query # <<>>
    /\ tokenize_text(call.query, "regex").value = <<>>

NoDuplicates(seq) == \A i, j \in 1..Len(seq) : i # j => seq[i] # seq[j]

\* C7: search_documents returns the empty list when the query tokenizes to
\* nothing; otherwise a duplicate-free list of elements of
\* index.search(tokens(query), operation), all of them without a limit and
\* exactly min(limit, number of matches) of them for a limit >= 0.
C7_SearchDocumentsLimit ==
    (/\ call.op = "search_documents" /\ engine.index # Nothing
     /\ upper(call.operation) \in {"AND", "OR"}) =>
        LET query_terms == tokenize_text(call.query, "regex").value
            matches == search(Get(engine.index).index, query_terms, call.operation).value
        IN  IF query_terms = <<>>
            THEN result.raised = NoError /\ result.value = <<>>
            ELSE /\ result.raised = NoError
                 /\ NoDuplicates(result.value)
                 /\ Range(result.value) \subseteq matches
                 /\ call.limit = Nothing => Range(result.value) = matches
                 /\ call.limit # Nothing =>
                        Len(result.value) = Min(Get(call.limit), Cardinality(matches))

\* the sentences of the rows of the documents in matched, in record order and
\* then sentence order, each with its document
RECURSIVE SentencesOf(_, _)
SentencesOf(rows, matched) ==
    IF rows = <<>> THEN <<>>
    ELSE (IF Head(rows).filename \in matched
          THEN LET sentences == tokenize_sentences(Head(rows).content) IN
               [i \in 1..Len(sentences) |->
                   [document |-> Head(rows).filename, sentence |-> sentences[i]]]
          ELSE <<>>)
         \o SentencesOf(Tail(rows), matched)

DocumentAndSentence(r) == [document |-> r.document, sentence |-> r.sentence]

\* C8: without a limit, search_sentences returns, in corpus record order and
\* then sentence order, exactly the sentences of the documents matched by
\* search_documents that hold every query token (AND) or at least one (OR).
C8_SentenceSearch ==
    (/\ call.op = "search_sentences" /\ call.limit = Nothing
     /\ upper(call.operation) \in {"AND", "OR"}
     /\ engine.index # Nothing /\ ~CorpusMissing(engine)) =>
        LET query_tokens == Range(tokenize_text(call.query, "regex").value)
            matched == UNION {Range(docs.value) :
                          docs \in search_documents(engine, call.query,
                                                    call.operation, Nothing)}
            Holds(s) ==
                LET tokens == Range(tokenize_text(s.sentence, "regex").value) IN
                IF upper(call.operation) = "AND"
                THEN query_tokens \subseteq tokens
                ELSE query_tokens \cap tokens # {}
        IN  /\ result.raised = NoError
            /\ Map(DocumentAndSentence, result.value)
                   = SelectSeq(SentencesOf(CorpusFiles[engine.corpus_csv], matched), Holds)

\* an AND search of two words: a matched document contributes some of its
\* sentences and not others, and an unmatched document has a sentence with
\* one of the words
C8_Witness ==
    /\ call.op = "search_sentences" /\ call.limit = Nothing
    /\ call.operation = "AND"
    /\ result.raised = NoError
    /\ Len(tokenize_text(call.query, "regex").value) = 2
    /\ Len(result.value) >= 2
    /\ \E row \in Range(CorpusFiles[engine.corpus_csv]) :
           /\ row.filename \in {r.document : r \in Range(result.value)}
           /\ \E s \in Range(tokenize_sentences(row.content)) :
                  s \notin {r.sentence : r \in Range(result.value)}
    /\ \E row \in Range(CorpusFiles[engine.corpus_csv]) :
           /\ row.filename \notin {r.document : r \in Range(result.value)}
           /\ \E s \in Range(tokenize_sentences(row.content)) :
                  Range(tokenize_text(s, "regex").value)
                      \cap Range(tokenize_text(call.query, "regex").value) # {}

\* C9: search_sentences with a limit returns the first `limit` entries of
\* what it returns without a limit on the same engine state.
C9_LimitIsTruncation ==
    (call.op = "search_sentences" /\ call.limit # Nothing) =>
        result \in {IF full.raised # NoError THEN full
                    ELSE Returned(Take(full.value, Get(call.limit))) :
                       full \in search_sentences(engine, call.query,
                                                 call.operation, Nothing)}

\* C11: once get_document_content(d) has returned a content c, every later
\* get_document_content(d) returns c without opening the corpus file,
\* whatever queries, load_index and set_corpus_csv calls happen in between;
\* no operation removes or replaces an entry of the cache.
C11_MemoizedContent ==
    [][/\ (call'.op = "get_document_content" /\ call'.doc_id \in DOMAIN served) =>
              /\ result' = Returned(Some(served[call'.doc_id]))
              /\ ~get_document_content(engine, call'.doc_id).opened
       /\ \A d \in DOMAIN engine.document_cache :
              /\ d \in DOMAIN engine'.document_cache
              /\ engine'.document_cache[d] = engine.document_cache[d]
      ]_vars

\* C11 for the calls made while a corpus path is set
C11_MemoizedContentWithCorpus ==
    [][/\ (/\ call'.op = "get_document_content" /\ call'.doc_id \in DOMAIN served
           /\ TruthyStr(engine.corpus_csv)) =>
              /\ result' = Returned(Some(served[call'.doc_id]))
              /\ ~get_document_content(engine, call'.doc_id).opened
       /\ \A d \in DOMAIN engine.document_cache :
              /\ d \in DOMAIN engine'.document_cache
              /\ engine'.document_cache[d] = engine.document_cache[d]
      ]_vars

\* a content served from corpus.csv is served again after the engine moved to
\* other.csv, where the same document has another content
C11_Witness ==
    /\ call.op = "get_document_content"
    /\ engine.corpus_csv = "other.csv"
    /\ call.doc_id \in DOMAIN served
    /\ result = Returned(Some(served[call.doc_id]))
    /\ first_row(OtherRows, call.doc_id) # Nothing
    /\ Get(first_row(OtherRows, call.doc_id)).content # served[call.doc_id]

(***************************************************************************)
(* _get_sentence_context on its own: contents with a run of one letter     *)
(* before and a run of another after a short body, around context_length.  *)
(***************************************************************************)
Pad(c, n) == [i \in 1..n |-> c]

PadLengths == {0, 1, 99, 100, 101, 150}

Bodies == { <<LA, LA, DANDA>>, <<LA, SPACE, LA, LA, DANDA>>, <<>> }

\* sentences: in the body once, in the body twice, in the padding, across
\* the padding and the body, nowhere
ContextSentences ==
    { <<LA, LA, DANDA>>, <<LA>>, <<NA>>, <<NA, LA>>, <<DANDA, PA>>, <<BANG>> }

InitContext ==
    /\ index = EmptyIndex.index
    /\ document_count = EmptyIndex.document_count
    /\ total_terms = EmptyIndex.total_terms
    /\ contributed = <<>>
    /\ engine = SearchEngine(Nothing, None)
    /\ supplied = FALSE
    /\ served = <<>>
    /\ disk = FileSystem(<<>>, {})
    /\ call = NoCall
    /\ result = Returned(None)

GetSentenceContext(content, sentence) ==
    /\ call = NoCall
    /\ call' = [op |-> "get_sentence_context", content |-> content,
                sentence |-> sentence]
    /\ result' = Returned(get_sentence_context(content, sentence, context_length))
    /\ UNCHANGED <<index, document_count, total_terms, contributed, engine, supplied, served, disk>>

NextContext ==
    \/ \E before \in PadLengths, after \in PadLengths, body \in Bodies,
          sentence \in ContextSentences :
           GetSentenceContext(Pad(NA, before) \o body \o Pad(PA, after), sentence)
    \/ Return

SpecContext == InitContext /\ [][NextContext]_vars

OccursAt(content, sentence, p) ==
    /\ p \in 0..(Len(content) - Len(sentence))
    /\ SubSeq(content, p + 1, p + Len(sentence)) = sentence

IsFirstOccurrence(content, sentence, p) ==
    /\ OccursAt(content, sentence, p)
    /\ \A j \in 0..(p - 1) : ~OccursAt(content, sentence, j)

\* C10: for a sentence whose first occurrence in the content starts at p the
\* context is content[max(0, p-100) : min(len(content), p+len(sentence)+100)],
\* with "..." before it exactly when it does not start at the beginning of
\* the content and after it exactly when it does not reach the end; a
\* sentence that does not occur in the content is its own context.
C10_SentenceContext ==
    call.op = "get_sentence_context" =>
        LET content == call.content
            sentence == call.sentence
            n == Len(content)
        IN  /\ \A p \in 0..n :
                   IsFirstOccurrence(content, sentence, p) =>
                       LET from == IF p - 100 > 0 THEN p - 100 ELSE 0
                           to == IF p + Len(sentence) + 100 < n
                                 THEN p + Len(sentence) + 100 ELSE n
                       IN  result.value =
                               (IF from # 0 THEN <<DOT, DOT, DOT>> ELSE <<>>)
                               \o [i \in 1..(to - from) |-> content[from + i]]
                               \o (IF to # n THEN <<DOT, DOT, DOT>> ELSE <<>>)
            /\ (\A p \in 0..n : ~OccursAt(content, sentence, p)) =>
                   result.value = sentence

\* the sentence occurs twice, the first time 150 code points into the content
\* and with more than 100 after it: 100 code points on either side of it and
\* both ellipsis markers
C10_Witness ==
    /\ call.op = "get_sentence_context"
    /\ IsFirstOccurrence(call.content, call.sentence, 150)
    /\ \E p \in 151..Len(call.content) : OccursAt(call.content, call.sentence, p)
    /\ Len(call.content) > 150 + Len(call.sentence) + 100
    /\ Len(result.value) = 3 + 100 + Len(call.sentence) + 100 + 3
    /\ SubSeq(result.value, 1, 4) = <<DOT, DOT, DOT, NA>>

(***************************************************************************)
(* The file machine: indexes built from the corpus files, saved to and     *)
(* loaded from a file system that starts empty.                            *)
(***************************************************************************)
OutputPaths == {"index.json", "out/index.pkl"}
InputPaths == OutputPaths \cup {"missing.json"}

InitFiles ==
    /\ index = EmptyIndex.index
    /\ document_count = EmptyIndex.document_count
    /\ total_terms = EmptyIndex.total_terms
    /\ contributed = <<>>
    /\ engine = None
    /\ supplied = FALSE
    /\ served = <<>>
    /\ disk = FileSystem(<<>>, {})
    /\ call = NoCall
    /\ result = Returned(None)

SaveInvertedIndex(idx, output_path, format) ==
    /\ call = NoCall
    /\ call' = [op |-> "save_inverted_index", path |-> output_path, format |-> format]
    /\ \E saved \in save_inverted_index(disk, Get(idx), output_path, format) :
           /\ disk' = saved.fs
           /\ result' = IF saved.raised # NoError THEN Raised(saved.raised)
                        ELSE Returned(None)
    /\ UNCHANGED <<index, document_count, total_terms, contributed, engine, supplied, served>>

LoadInvertedIndex(input_path, format) ==
    /\ call = NoCall
    /\ call' = [op |-> "load_inverted_index", path |-> input_path, format |-> format]
    /\ result' = load(disk.files, input_path, format)
    /\ UNCHANGED <<index, document_count, total_terms, contributed, engine, supplied,
                   served, disk>>

BuildInvertedIndexFromCsv(csv_path, tokenizer_mode) ==
    /\ call = NoCall
    /\ call' = [op |-> "build_inverted_index_from_csv", path |-> csv_path,
                mode |-> tokenizer_mode]
    /\ result' = build_index_from_csv(csv_path, tokenizer_mode)
    /\ UNCHANGED <<index, document_count, total_terms, contributed, engine, supplied,
                   served, disk>>

NextFiles ==
    \/ \E idx \in IndexArgs \ {Nothing}, output_path \in OutputPaths, format \in Formats :
           SaveInvertedIndex(idx, output_path, format)
    \/ \E input_path \in InputPaths, format \in Formats :
           LoadInvertedIndex(input_path, format)
    \/ \E csv_path \in DOMAIN CorpusFiles \cup {"missing.csv"},
          tokenizer_mode \in {"regex", "space", "xml"} :
           BuildInvertedIndexFromCsv(csv_path, tokenizer_mode)
    \/ Return

SpecFiles == InitFiles /\ [][NextFiles]_vars

NotFoundError == "FileNotFoundError: Index file not found"
FormatError == "ValueError: format must be 'json' or 'pickle'"

\* C15: load_inverted_index fails with FileNotFoundError when the file does
\* not exist and, for a file that exists, with ValueError when the format is
\* neither json nor pickle, returning no index either time;
\* save_inverted_index with such a format fails with ValueError and has made
\* no directory and no file.
C15_FileErrors ==
    [][/\ call'.op = "load_inverted_index" =>
              /\ call'.path \notin DOMAIN disk.files =>
                     (result'.raised = NotFoundError /\ result'.value = None)
              /\ (/\ call'.path \in DOMAIN disk.files
                  /\ call'.format \notin {"json", "pickle"}) =>
                     (result'.raised = FormatError /\ result'.value = None)
       /\ (call'.op = "save_inverted_index" /\ call'.format \notin {"json", "pickle"}) =>
              /\ result'.raised = FormatError
              /\ result'.value = None
              /\ disk' = disk
      ]_vars

\* C15 as stated: ValueError for every load with a format that is neither
\* json nor pickle, whether the file exists or not
C15_FileErrorsAnyFile ==
    [][/\ call'.op = "load_inverted_index" =>
              /\ call'.path \notin DOMAIN disk.files =>
                     (result'.raised = NotFoundError /\ result'.value = None)
              /\ call'.format \notin {"json", "pickle"} =>
                     (result'.raised = FormatError /\ result'.value = None)
       /\ (call'.op = "save_inverted_index" /\ call'.format \notin {"json", "pickle"}) =>
              /\ result'.raised = FormatError
              /\ result'.value = None
              /\ disk' = disk
      ]_vars

\* C21: build_inverted_index_from_csv with a tokenizer mode that is neither
\* 'space' nor 'regex' fails and returns no index.
C21_InvalidModeSurfaces ==
    (call.op = "build_inverted_index_from_csv" /\ call.mode \notin {"space", "regex"}) =>
        result.raised # NoError

\* save_inverted_index with an unknown format and a path in a directory that
\* does not exist yet, while another index file is on the disk
C15_Witness ==
    /\ call.op = "save_inverted_index"
    /\ call.format \notin {"json", "pickle"}
    /\ dirname(call.path) # ""
    /\ dirname(call.path) \notin disk.dirs
    /\ DOMAIN disk.files # {}
    /\ result.raised = FormatError

(***************************************************************************)
(* Unigram tables (corpus.py)                                              *)
(***************************************************************************)
\* [\u0900-\u0963\u0965-\u097F]: the Devanagari block without U+0964
UnigramDevanagari == (2304..2403) \cup (2405..2431)

\* corpus._tokenize(text, mode) with the default pattern
unigram_tokenize(text, mode) ==
    IF mode \notin {"space", "regex"}
    THEN Raised("ValueError: mode must be 'space' or 'regex'")
    ELSE IF mode = "space" THEN Returned(split_whitespace(text, 1, <<>>))
    ELSE Returned(findall(UnigramDevanagari, text, 1, <<>>))

\* the loop of build_unigram: the tokens counter.update is given, text by text
RECURSIVE counted_tokens(_, _)
counted_tokens(texts, tokenizer_mode) ==
    IF texts = <<>> THEN Returned(<<>>)
    ELSE LET text == Head(texts) IN
         IF text = <<>> \/ strip(text) = <<>>
         THEN counted_tokens(Tail(texts), tokenizer_mode)
         ELSE LET tokens == unigram_tokenize(text, tokenizer_mode)
                  rest == counted_tokens(Tail(texts), tokenizer_mode)
              IN  IF tokens.raised # NoError THEN tokens
                  ELSE IF rest.raised # NoError THEN rest
                  ELSE Returned(NonBlankOnly(tokens.value) \o rest.value)

\* str < str: by code point, a proper prefix first
RECURSIVE StrLess(_, _)
StrLess(a, b) ==
    IF b = <<>> THEN FALSE
    ELSE IF a = <<>> THEN TRUE
    ELSE IF Head(a) # Head(b) THEN Head(a) < Head(b)
    ELSE StrLess(Tail(a), Tail(b))

Item(token, count) == [token |-> token, count |-> count]

\* an order that looks at the token only
TokenBefore(x, y) == StrLess(x.token, y.token)

\* key=lambda x: (-x[1], x[0])
FreqBefore(x, y) == x.count > y.count \/ (x.count = y.count /\ StrLess(x.token, y.token))
\* key=_devanagari_sort_key
DevBefore(x, y) == StrLess(x.token, y.token)

\* items.sort(key): the items in the order of Before
RECURSIVE sort_items(_, _)
sort_items(items, by_freq) ==
    IF items = {} THEN <<>>
    ELSE LET first == CHOOSE x \in items : \A y \in items \ {x} :
                          IF by_freq THEN FreqBefore(x, y) ELSE DevBefore(x, y)
         IN  <<first>> \o sort_items(items \ {first}, by_freq)

\* build_unigram with "if top_k:" in the place of "if top_k is not None:"
build_unigram_truthy_top_k(texts, tokenizer_mode, sort_by, top_k) ==
    LET counted == counted_tokens(texts, tokenizer_mode) IN
    IF counted.raised # NoError THEN counted
    ELSE IF sort_by \notin {"freq", "dev"}
    THEN Raised("ValueError: sort_by must be 'freq' or 'dev'")
    ELSE LET items == sort_items({Item(t, Occurrences(counted.value, t)) :
                                     t \in Range(counted.value)},
                                 sort_by = "freq")
         IN  Returned(IF TruthyInt(top_k) THEN Take(items, Get(top_k)) ELSE items)

\* build_unigram(texts, tokenizer_mode, sort_by=sort_by, top_k=top_k)
build_unigram(texts, tokenizer_mode, sort_by, top_k) ==
    LET counted == counted_tokens(texts, tokenizer_mode) IN
    IF counted.raised # NoError THEN counted
    ELSE IF sort_by \notin {"freq", "dev"}
    THEN Raised("ValueError: sort_by must be 'freq' or 'dev'")
    ELSE LET items == sort_items({Item(t, Occurrences(counted.value, t)) :
                                     t \in Range(counted.value)},
                                 sort_by = "freq")
         IN  Returned(IF top_k # Nothing THEN Take(items, Get(top_k)) ELSE items)

\* tokenizer_mode: str = "space" in the signatures of build_unigram and
\* build_unigram_from_csv: the mode of a call that passes none
mode_or_default(tokenizer_mode) ==
    IF tokenizer_mode = None THEN "space" ELSE tokenizer_mode

\* str(float('nan')): what astype(str) makes of an empty cell
NAN == <<LATIN_N, LATIN_A, LATIN_N>>

\* df[content_column].astype(str).tolist()
RECURSIVE column_texts(_)
column_texts(rows) ==
    IF rows = <<>> THEN <<>>
    ELSE <<IF Head(rows).content = <<>> THEN NAN ELSE Head(rows).content>>
             \o column_texts(Tail(rows))

\* build_unigram_from_csv(csv_path, tokenizer_mode=..., sort_by=..., top_k=...)
build_unigram_from_csv(csv_path, tokenizer_mode, sort_by, top_k) ==
    IF csv_path \notin DOMAIN CorpusFiles
    THEN Raised("FileNotFoundError: CSV file not found")
    ELSE build_unigram(column_texts(CorpusFiles[csv_path]), tokenizer_mode,
                       sort_by, top_k)

(***************************************************************************)
(* The text machine: the tokenizer and what is built on it, applied to     *)
(* every text of up to MaxTextLen code points.                             *)
(***************************************************************************)
\* two letters, a space, danda and double danda, '!' and a delimiter of the
\* default sentence_delimiters
Chars == {NA, PA, SPACE, DANDA, DDANDA, BANG, CYR_ER}

Texts == SeqsUpTo(Chars, MaxTextLen)

\* lists of texts: one text, or two of up to MaxPairLen code points
TextLists ==
    {<<text>> : text \in Texts}
    \cup {<<t, u>> : t \in SeqsUpTo(Chars, MaxPairLen), u \in SeqsUpTo(Chars, MaxPairLen)}

Modes == {"regex", "space", "xml"}

\* ' '.join(tokens)
RECURSIVE join(_)
join(tokens) ==
    IF tokens = <<>> THEN <<>>
    ELSE IF Len(tokens) = 1 THEN tokens[1]
    ELSE tokens[1] \o <<SPACE>> \o join(Tail(tokens))

InitText ==
    /\ index = EmptyIndex.index
    /\ document_count = EmptyIndex.document_count
    /\ total_terms = EmptyIndex.total_terms
    /\ contributed = <<>>
    /\ engine = None
    /\ supplied = FALSE
    /\ served = <<>>
    /\ disk = FileSystem(<<>>, {})
    /\ call = NoCall
    /\ result = Returned(None)

Unchanged ==
    UNCHANGED <<index, document_count, total_terms, contributed, engine, supplied,
                served, disk>>

TokenizeText(text, mode) ==
    /\ call = NoCall
    /\ call' = [op |-> "tokenize_text", text |-> text, mode |-> mode]
    /\ result' = tokenize_text(text, mode)
    /\ Unchanged

TokenizeSentences(text) ==
    /\ call = NoCall
    /\ call' = [op |-> "tokenize_sentences", text |-> text]
    /\ result' = Returned(tokenize_sentences(text))
    /\ Unchanged

\* index = InvertedIndex(); index.add_document(doc_id, tokenize_text(content));
\* index.search(tokenize_text(content), "AND")
IndexContent(doc_id, content) ==
    /\ call = NoCall
    /\ call' = [op |-> "index_content", doc_id |-> doc_id, text |-> content]
    /\ LET tokens == tokenize_text(content, "regex").value
           obj == add_document(EmptyIndex, doc_id, tokens)
       IN  result' = [raised |-> NoError, value |-> obj,
                      found |-> search(obj.index, tokens, "AND")]
    /\ Unchanged

\* tokenize_text(' '.join(tokenize_text(text)))
Retokenize(text) ==
    /\ call = NoCall
    /\ call' = [op |-> "retokenize", text |-> text]
    /\ result' = tokenize_text(join(tokenize_text(text, "regex").value), "regex")
    /\ Unchanged

\* build_unigram(texts, tokenizer_mode="regex")
BuildUnigram(texts) ==
    /\ call = NoCall
    /\ call' = [op |-> "build_unigram", texts |-> texts]
    /\ result' = build_unigram(texts, "regex", "freq", Nothing)
    /\ Unchanged

NextText ==
    \/ \E text \in Texts, mode \in Modes : TokenizeText(text, mode)
    \/ \E text \in Texts : TokenizeSentences(text)
    \/ \E doc_id \in Docs, content \in Texts : IndexContent(doc_id, content)
    \/ \E text \in Texts : Retokenize(text)
    \/ \E texts \in TextLists : BuildUnigram(texts)
    \/ Return

SpecText == InitText /\ [][NextText]_vars

(***************************************************************************)
(* Properties of the text machine.                                         *)
(***************************************************************************)
\* the tokens whose posting set holds doc_id
TokensOf(idx, doc_id) == {t \in DOMAIN idx : doc_id \in idx[t]}

\* C16: after add_document(doc_id, tokenize_text(content)) on an empty index
\* the tokens whose posting set holds doc_id are the distinct tokens of
\* tokenize_text(content), and an AND search for the tokens of a content that
\* has tokens returns the document.
C16_IndexHoldsTokens ==
    call.op = "index_content" =>
        LET tokens == Range(tokenize_text(call.text, "regex").value) IN
        /\ TokensOf(result.value.index, call.doc_id) = tokens
        /\ tokens # {} => (result.found.raised = NoError
                           /\ call.doc_id \in result.found.value)

\* C16 as stated: the AND search returns the document for any content
C16_IndexHoldsTokensAnyContent ==
    call.op = "index_content" =>
        /\ TokensOf(result.value.index, call.doc_id)
               = Range(tokenize_text(call.text, "regex").value)
        /\ result.found.raised = NoError
        /\ call.doc_id \in result.found.value

\* a content of two different words with a danda between them
C16_Witness ==
    /\ call.op = "index_content"
    /\ \E i \in 1..Len(call.text) : call.text[i] = DANDA
    /\ Cardinality(TokensOf(result.value.index, call.doc_id)) = 2
    /\ result.found.value = {call.doc_id}

RECURSIVE AllTokens(_)
AllTokens(texts) ==
    IF texts = <<>> THEN <<>>
    ELSE tokenize_text(Head(texts), "regex").value \o AllTokens(Tail(texts))

RECURSIVE SumCounts(_)
SumCounts(items) ==
    IF items = <<>> THEN 0 ELSE Head(items).count + SumCounts(Tail(items))

\* C17: build_unigram in regex mode with the default pattern counts exactly
\* the tokens tokenize_text in regex mode produces for the same texts: the
\* same set of tokens, and counts that sum to the number of those tokens.
C17_UnigramCountsTokenizerTokens ==
    call.op = "build_unigram" =>
        /\ result.raised = NoError
        /\ {result.value[i].token : i \in 1..Len(result.value)}
               = Range(AllTokens(call.texts))
        /\ SumCounts(result.value) = Len(AllTokens(call.texts))

\* C18: tokenize_text fails with ValueError for any text when the mode is
\* neither 'space' nor 'regex'.
C18_InvalidModeRaises ==
    (call.op = "tokenize_text" /\ call.mode \notin {"space", "regex"}) =>
        result.raised = "ValueError: mode must be 'space' or 'regex'"

\* C19: with the default pattern tokenize_sentences splits at every danda,
\* double danda, '!' and '?' and nowhere else, and returns the pieces in
\* order, stripped, without the empty ones.
C19_SentenceDelimiters ==
    call.op = "tokenize_sentences" =>
        result.value =
            NonBlankOnly(Map(strip, re_split({DANDA, DDANDA, BANG, QMARK},
                                             call.text, 1, <<>>)))

\* C20: tokenize_text(' '.join(tokenize_text(text))) is tokenize_text(text):
\* the same tokens in the same order with the same repetitions.
C20_TokenizeIdempotent ==
    call.op = "retokenize" => result = tokenize_text(call.text, "regex")

\* a text of the same word twice with a danda between: joining its tokens
\* gives another text
C20_Witness ==
    /\ call.op = "retokenize"
    /\ Len(result.value) = 2
    /\ result.value[1] = result.value[2]
    /\ join(result.value) # call.text
    /\ \E i \in 1..Len(call.text) : call.text[i] = DANDA

(***************************************************************************)
(* The unigram machine: build_unigram and build_unigram_from_csv called    *)
(* with every tokenizer mode (or none), sort order and top_k on lists of   *)
(* up to MaxTexts texts.                                                   *)
(***************************************************************************)
MaxTexts == 2

UnigramTexts ==
    { <<NA, SPACE, PA, SPACE, NA>>, <<PA, SPACE, LA>>, <<>>, <<SPACE>>,
      <<NA, BANG, PA>> }

UnigramLists == SeqsUpTo(UnigramTexts, MaxTexts)

\* the tokenizer_mode argument: None stands for a call that passes none
ModeArgs == {None} \cup Modes

SortOrders == {"freq", "dev", "alpha"}

BuildUnigramWith(texts, tokenizer_mode, sort_by, top_k) ==
    /\ call = NoCall
    /\ call' = [op |-> "build_unigram", texts |-> texts, mode |-> tokenizer_mode,
                sort_by |-> sort_by, top_k |-> top_k]
    /\ result' = build_unigram(texts, mode_or_default(tokenizer_mode), sort_by, top_k)
    /\ Unchanged

BuildUnigramFromCsv(csv_path, tokenizer_mode, sort_by, top_k) ==
    /\ call = NoCall
    /\ call' = [op |-> "build_unigram_from_csv", path |-> csv_path,
                mode |-> tokenizer_mode, sort_by |-> sort_by, top_k |-> top_k]
    /\ result' = build_unigram_from_csv(csv_path, mode_or_default(tokenizer_mode),
                                        sort_by, top_k)
    /\ Unchanged

NextUnigram ==
    \/ \E texts \in UnigramLists, tokenizer_mode \in ModeArgs,
          sort_by \in SortOrders, top_k \in Limits :
           BuildUnigramWith(texts, tokenizer_mode, sort_by, top_k)
    \/ \E csv_path \in DOMAIN CorpusFiles \cup {"missing.csv"},
          tokenizer_mode \in ModeArgs, sort_by \in SortOrders, top_k \in Limits :
           BuildUnigramFromCsv(csv_path, tokenizer_mode, sort_by, top_k)
    \/ Return

SpecUnigram == InitText /\ [][NextUnigram]_vars

\* the tokens a text contributes in a mode, by the definition of the modes:
\* the whitespace-separated pieces, or the maximal runs of the pattern
RECURSIVE TokensIn(_, _)
TokensIn(texts, mode) ==
    IF texts = <<>> THEN <<>>
    ELSE (IF mode = "space" THEN split_whitespace(Head(texts), 1, <<>>)
          ELSE findall(UnigramDevanagari, Head(texts), 1, <<>>))
         \o TokensIn(Tail(texts), mode)

\* C22: with sort order 'freq' build_unigram returns one entry for each
\* distinct token of the texts, with the number of its occurrences, and each
\* entry comes before the next by a greater count or, at equal counts, by a
\* smaller token.
C22_FreqOrder ==
    (/\ call.op = "build_unigram"
     /\ call.sort_by = "freq"
     /\ call.top_k = Nothing
     /\ mode_or_default(call.mode) \in {"space", "regex"}) =>
        LET tokens == TokensIn(call.texts, mode_or_default(call.mode)) IN
        /\ result.raised = NoError
        /\ {result.value[i].token : i \in 1..Len(result.value)} = Range(tokens)
        /\ Len(result.value) = Cardinality(Range(tokens))
        /\ \A i \in 1..Len(result.value) :
               result.value[i].count = Occurrences(tokens, result.value[i].token)
        /\ \A i \in 1..(Len(result.value) - 1) :
               \/ result.value[i].count > result.value[i + 1].count
               \/ /\ result.value[i].count = result.value[i + 1].count
                  /\ StrLess(result.value[i].token, result.value[i + 1].token)

\* two texts in space mode: two tokens counted twice, in token order, before
\* a token counted once that is smaller than neither
C22_Witness ==
    /\ call.op = "build_unigram"
    /\ call.sort_by = "freq"
    /\ call.top_k = Nothing
    /\ call.mode = "space"
    /\ call.texts = << <<PA, SPACE, LA>>, <<NA, SPACE, PA, SPACE, NA>> >>
    /\ result.raised = NoError
    /\ result.value = <<Item(<<NA>>, 2), Item(<<PA>>, 2), Item(<<LA>>, 1)>>

IsUnigramCall == call.op \in {"build_unigram", "build_unigram_from_csv"}

\* C23: for every list of texts, sort order and k >= 0, build_unigram with
\* top_k = k returns the first k entries of the result of the same call
\* without top_k (all of them when k exceeds their number, none when k = 0)
\* and raises no error.
C23_TopKIsPrefix ==
    (/\ call.op = "build_unigram"
     /\ call.top_k # Nothing
     /\ call.sort_by \in {"freq", "dev"}
     /\ mode_or_default(call.mode) \in {"space", "regex"}) =>
        LET whole == build_unigram(call.texts, mode_or_default(call.mode),
                                   call.sort_by, Nothing)
            k == Get(call.top_k)
        IN  /\ result.raised = NoError
            /\ whole.raised = NoError
            /\ Len(result.value) = Min(k, Len(whole.value))
            /\ \A i \in 1..Len(result.value) : result.value[i] = whole.value[i]

\* top_k = 0 on texts with three distinct tokens, and a top_k that cuts a
\* table in 'dev' order short
C23_Witness ==
    /\ call.op = "build_unigram"
    /\ call.sort_by \in {"freq", "dev"}
    /\ mode_or_default(call.mode) \in {"space", "regex"}
    /\ \/ /\ call.top_k = Some(0)
          /\ Cardinality(Range(TokensIn(call.texts, mode_or_default(call.mode)))) = 3
          /\ result.value = <<>>
       \/ /\ call.top_k = Some(MaxLimit)
          /\ call.sort_by = "dev"
          /\ Cardinality(Range(TokensIn(call.texts, mode_or_default(call.mode)))) > MaxLimit
          /\ Len(result.value) = MaxLimit

\* C26: a call of the unigram builder that passes no tokenizer mode returns
\* what the same call with tokenizer_mode = 'regex' returns, for
\* build_unigram_from_csv on every CSV and for build_unigram on every list
\* of texts.
C26_DefaultModeIsRegex ==
    (IsUnigramCall /\ call.mode = None /\ result.raised = NoError) =>
        LET regex == IF call.op = "build_unigram"
                     THEN build_unigram(call.texts, "regex", call.sort_by, call.top_k)
                     ELSE build_unigram_from_csv(call.path, "regex", call.sort_by,
                                                 call.top_k)
        IN  /\ regex.raised = NoError
            /\ result.value = regex.value

(***************************************************************************)
(* Highlighting                                                            *)
(***************************************************************************)
\* the text without its '*' code points
Unmarked(marked) == Filter(marked, Range(marked) \ {STAR})

\* the position in marked of the k-th code point that is not a '*'
RECURSIVE Image(_, _, _)
Image(marked, k, from) ==
    IF from > Len(marked) THEN 0
    ELSE IF marked[from] = STAR THEN Image(marked, k, from + 1)
    ELSE IF k = 1 THEN from
    ELSE Image(marked, k - 1, from + 1)

\* term occurs in text at position i, whatever the case
TermAt(text, term, i) ==
    /\ term # <<>>
    /\ i + Len(term) - 1 <= Len(text)
    /\ lower(SubSeq(text, i, i + Len(term) - 1)) = lower(term)

\* in marked, the code points i..j of the text stand between two '**',
\* whatever other markers stand among them
EnclosedAt(marked, i, j) ==
    LET first == Image(marked, i, 1)
        last == Image(marked, j, 1)
    IN  /\ first > 2
        /\ marked[first - 1] = STAR /\ marked[first - 2] = STAR
        /\ last > 0 /\ last + 2 <= Len(marked)
        /\ marked[last + 1] = STAR /\ marked[last + 2] = STAR

\* marked is text with markers added, and every occurrence of every term in
\* text is enclosed in markers
Encloses(marked, text, terms) ==
    /\ Unmarked(marked) = text
    /\ \A n \in 1..Len(terms), i \in 1..Len(text) :
           TermAt(text, terms[n], i) =>
               EnclosedAt(marked, i, i + Len(terms[n]) - 1)

\* C24: search_with_highlight returns one result for each result of
\* search_sentences, in the same order and with the same document, whose
\* original_sentence is the sentence search_sentences returns, and in whose
\* sentence and context every occurrence of each query token is enclosed in
\* '**' markers.
C24_HighlightedResults ==
    (call.op = "search_with_highlight" /\ result.raised = NoError) =>
        \E plain \in search_sentences(engine, call.query, call.operation, call.limit) :
            LET terms == tokenize_text(call.query, "regex").value IN
            /\ plain.raised = NoError
            /\ Len(result.value) = Len(plain.value)
            /\ \A i \in 1..Len(result.value) :
                   /\ result.value[i].document = plain.value[i].document
                   /\ result.value[i].original_sentence = plain.value[i].sentence
                   /\ Encloses(result.value[i].sentence, plain.value[i].sentence, terms)
                   /\ Encloses(result.value[i].context, plain.value[i].context, terms)

\* the terms without the repetitions: each at its first place
RECURSIVE Once(_)
Once(terms) ==
    IF terms = <<>> THEN <<>>
    ELSE LET front == Once(SubSeq(terms, 1, Len(terms) - 1))
             term == terms[Len(terms)]
         IN  IF term \in Range(front) THEN front ELSE Append(front, term)

\* C30: _highlight_terms gives for a term list that repeats a token the
\* string it gives for the list with that token once, so no occurrence is
\* wrapped in more than one pair of markers.
C30_HighlightIgnoresRepetition ==
    call.op = "_highlight_terms" =>
        result.value = highlight_terms(call.text, Once(call.terms))

\* C28: whatever set_corpus_csv and get_document_content calls were made,
\* every entry of the document cache is the content its document id has in
\* the corpus file the engine is attached to now.
C28_CacheIsCurrent ==
    engine.corpus_csv \in DOMAIN CorpusFiles =>
        \A doc_id \in DOMAIN engine.document_cache :
            LET row == first_row(CorpusFiles[engine.corpus_csv], doc_id) IN
            /\ row # Nothing
            /\ Get(row).content = engine.document_cache[doc_id]

(***************************************************************************)
(* The index over its whole life                                           *)
(***************************************************************************)
FromDictTotal(Counted(_)) ==
    call.op = "from_dict_of_to_dict" =>
        /\ result.raised = NoError
        /\ result.value.total_terms = Cardinality(Postings(index))
        /\ result.value.total_terms <= total_terms
        /\ (result.value.total_terms < total_terms)
               <=> \E p \in DOMAIN contributed : Counted(p[1]) /\ contributed[p] > 1

\* C27 (as amended): from_dict sets total_terms to the sum of the lengths of
\* the posting lists it is given; for the to_dict of an index built with
\* add_document that is at most the original total_terms, and less exactly
\* when some (token, doc_id) pair with a non-blank token was contributed more
\* than once.
C27_FromDictTotalTerms == FromDictTotal(NonBlank)

\* C27 as stated: less exactly when any pair was contributed more than once.
C27_FromDictTotalTermsAnyToken == FromDictTotal(NonEmpty)

\* the to_dict of an index with two postings and a pair contributed twice:
\* from_dict counts less than the index did
C27_Witness ==
    /\ call.op = "from_dict_of_to_dict"
    /\ result.value.total_terms = 2
    /\ total_terms = 3
    /\ \E p \in DOMAIN contributed : ~IsBlank(p[1]) /\ contributed[p] = 2

IndexInvariant ==
    /\ \A t \in DOMAIN index :
           /\ ~IsBlank(t)
           /\ index[t] # {}
           /\ index[t] = {d \in Docs : contributed[<<t, d>>] > 0}
    /\ \A p \in DOMAIN contributed :
           (~IsBlank(p[1]) /\ contributed[p] > 0) => p[1] \in DOMAIN index
    /\ Cardinality(DOMAIN index) <= total_terms

NeverShrinks ==
    /\ document_count' >= document_count
    /\ total_terms' >= total_terms
    /\ \A t \in DOMAIN index : t \in DOMAIN index' /\ index[t] \subseteq index'[t]

\* C29: in every state reached from the empty index by add_document,
\* get_documents and search calls in any order, every key of the postings is
\* a non-blank token passed to add_document, its posting set is not empty
\* and holds exactly the document ids the token was added with, the number
\* of distinct terms is at most total_terms, and document_count, total_terms
\* and every posting set never shrink.
C29_IndexInvariants == []IndexInvariant /\ [][NeverShrinks]_vars

\* after two add_document calls: a posting set of two documents, a blank
\* token that was passed and is no key, and more occurrences than terms
C29_Witness ==
    /\ call.op = "add_document"
    /\ document_count = 2
    /\ \E t \in DOMAIN index : Cardinality(index[t]) = 2
    /\ \E p \in DOMAIN contributed : IsBlank(p[1]) /\ contributed[p] > 0
    /\ total_terms > Cardinality(DOMAIN index)

(***************************************************************************)
(* The concurrent machine: MaxThreads callers of one SearchEngine, each    *)
(* making one call, get_document_content taken statement by statement.     *)
(* call[t] is the position and the locals of thread t, result[t] what its  *)
(* call returned; served is the document cache before the calls began.     *)
(***************************************************************************)
MaxThreads == 2

Threads == 1..MaxThreads

\* the document ids the threads ask for: twice in corpus.csv, once, never
AskedIds == {"d1", "d2", "d9"}

Idle == [pc |-> "idle", op |-> "none"]

\* the engine after the calls get_document_content(d) for d in doc_ids, one
\* after the other
RECURSIVE Sequentially(_, _)
Sequentially(self, doc_ids) ==
    IF doc_ids = <<>> THEN self
    ELSE Sequentially(get_document_content(self, Head(doc_ids)).self, Tail(doc_ids))

InitConcurrent ==
    /\ index = EmptyIndex.index
    /\ document_count = EmptyIndex.document_count
    /\ total_terms = EmptyIndex.total_terms
    /\ contributed = <<>>
    /\ \E corpus_csv \in {None, "corpus.csv"}, before \in SeqsUpTo({"d1"}, 1) :
           engine = Sequentially(
                        SearchEngine(Some(build_inverted_index_from_csv("corpus.csv")),
                                     corpus_csv),
                        before)
    /\ supplied = TRUE
    /\ served = engine.document_cache
    /\ disk = FileSystem(<<>>, {})
    /\ call = [t \in Threads |-> Idle]
    /\ result = [t \in Threads |-> Returned(None)]

Kept == UNCHANGED <<index, document_count, total_terms, contributed, supplied, served, disk>>

At(t, op, pc) == call[t].op = op /\ call[t].pc = pc

Goto(t, pc) == call' = [call EXCEPT ![t].pc = pc]

Done(t, value, from) ==
    /\ call' = [call EXCEPT ![t].pc = "done", ![t].from = from]
    /\ result' = [result EXCEPT ![t] = Returned(value)]

\* self._document_cache[doc_id] = content
cache_insert_replacing(cache, doc_id, content) == (doc_id :> content)

cache_insert(cache, doc_id, content) == (doc_id :> content) @@ cache

\* thread t calls get_document_content(doc_id)
BeginGetDocumentContent(t, doc_id) ==
    /\ call[t] = Idle
    /\ call' = [call EXCEPT ![t] = [pc |-> "check_corpus", op |-> "get_document_content",
                                    doc_id |-> doc_id, content |-> Nothing,
                                    from |-> "none"]]
    /\ UNCHANGED <<engine, result>>
    /\ Kept

\* if not self.corpus_csv: return None
CheckCorpus(t) ==
    /\ At(t, "get_document_content", "check_corpus")
    /\ IF ~TruthyStr(engine.corpus_csv)
       THEN Done(t, Nothing, "none")
       ELSE Goto(t, "check_cache") /\ UNCHANGED result
    /\ UNCHANGED engine
    /\ Kept

\* if doc_id in self._document_cache:
CheckCache(t) ==
    /\ At(t, "get_document_content", "check_cache")
    /\ IF call[t].doc_id \in DOMAIN engine.document_cache
       THEN Goto(t, "read_cache")
       ELSE Goto(t, "read_corpus")
    /\ UNCHANGED <<engine, result>>
    /\ Kept

\* return self._document_cache[doc_id]
ReadCache(t) ==
    /\ At(t, "get_document_content", "read_cache")
    /\ Done(t, Some(engine.document_cache[call[t].doc_id]), "cache")
    /\ UNCHANGED engine
    /\ Kept

\* the with block up to the row whose filename is doc_id, or to the end of
\* the file and return None
ReadCorpus(t) ==
    /\ At(t, "get_document_content", "read_corpus")
    /\ LET row == first_row(CorpusFiles[engine.corpus_csv], call[t].doc_id) IN
       IF row = Nothing
       THEN Done(t, Nothing, "corpus")
       ELSE /\ call' = [call EXCEPT ![t].pc = "insert",
                                    ![t].content = Some(Get(row).content)]
            /\ UNCHANGED result
    /\ UNCHANGED engine
    /\ Kept

\* self._document_cache[doc_id] = content; return content
InsertCache(t) ==
    /\ At(t, "get_document_content", "insert")
    /\ engine' = [engine EXCEPT !.document_cache =
                      cache_insert(engine.document_cache, call[t].doc_id,
                                   Get(call[t].content))]
    /\ Done(t, call[t].content, "corpus")
    /\ Kept

\* thread t calls search_documents(query, operation)
BeginSearchDocuments(t, query, operation) ==
    /\ call[t] = Idle
    /\ call' = [call EXCEPT ![t] = [pc |-> "search", op |-> "search_documents",
                                    query |-> query, operation |-> operation,
                                    from |-> "none"]]
    /\ UNCHANGED <<engine, result>>
    /\ Kept

\* the body of search_documents: it reads self.index only
RunSearchDocuments(t) ==
    /\ At(t, "search_documents", "search")
    /\ \E found \in search_documents(engine, call[t].query, call[t].operation, Nothing) :
           /\ call' = [call EXCEPT ![t].pc = "done", ![t].from = "index"]
           /\ result' = [result EXCEPT ![t] = found]
    /\ UNCHANGED engine
    /\ Kept

NextConcurrent ==
    \E t \in Threads :
        \/ \E doc_id \in AskedIds : BeginGetDocumentContent(t, doc_id)
        \/ CheckCorpus(t)
        \/ CheckCache(t)
        \/ ReadCache(t)
        \/ ReadCorpus(t)
        \/ InsertCache(t)
        \/ BeginSearchDocuments(t, <<NA, SPACE, PA>>, "OR")
        \/ RunSearchDocuments(t)

SpecConcurrent == InitConcurrent /\ [][NextConcurrent]_vars

\* the engine before the calls began
EngineBefore == [engine EXCEPT !.document_cache = served]

Readers == {t \in Threads : call[t].op = "get_document_content"}

AllDone == \A t \in Threads : call[t].pc = "done"

ReturnsAsAlone ==
    \A t \in Threads :
        call[t].pc = "done" =>
            IF call[t].op = "get_document_content"
            THEN /\ result[t].raised = NoError
                 /\ result[t].value =
                        get_document_content(EngineBefore, call[t].doc_id).value
            ELSE result[t] \in search_documents(EngineBefore, call[t].query,
                                                call[t].operation, Nothing)

CacheAsSequential ==
    AllDone =>
        \E order \in Lists(Readers) :
            engine.document_cache =
                Sequentially(EngineBefore,
                             [i \in 1..Len(order) |-> call[order[i]].doc_id]).document_cache

IndexKept == engine'.index = engine.index /\ engine'.corpus_csv = engine.corpus_csv

\* C25: when get_document_content calls for the same or for different
\* document ids run concurrently on one engine whose corpus does not change,
\* their cache checks, corpus reads and cache inserts interleaved in any
\* way, every call returns what it returns when run alone, the final cache
\* is the cache some sequential order of the calls produces, and concurrent
\* searches leave the index as it was.
C25_ConcurrentReaders ==
    [](ReturnsAsAlone /\ CacheAsSequential) /\ [][IndexKept]_vars

\* two calls for the same document that both missed the cache and both read
\* the corpus, finished
C25_Witness ==
    /\ AllDone
    /\ \E t \in Threads, u \in Threads :
           /\ t # u
           /\ call[t].op = "get_document_content" /\ call[u].op = "get_document_content"
           /\ call[t].doc_id = call[u].doc_id
           /\ call[t].from = "corpus" /\ call[u].from = "corpus"
           /\ result[t].value # Nothing
           /\ call[t].doc_id \in DOMAIN engine.document_cache

====
